---- MODULE Spec2Model ----
(***************************************************************************)
(* A model of hourglass, a terminal task tracker: the Hourglass state      *)
(* machine of src/hourglass/src/app/mod.rs (view, cursor, text buffer,     *)
(* task list, task file), the issue fetch of app/issues.rs and the         *)
(* process-wide issue cache of app/cache.rs; and the job scheduler of      *)
(* app/scheduler.rs, which the program declares and never constructs.      *)
(*                                                                         *)
(* One step of the model is main's call of load_tasks, or one iteration of *)
(* the loop of Hourglass::run: a poll that times out, or a key event and   *)
(* the whole handler it is dispatched to, followed by the loop's test of   *)
(* should_quit.  A panic ends the process; panic_msg keeps its message.    *)
(*                                                                         *)
(* The time stamps of a task (created_at, modified_at) are not modelled:   *)
(* no handler reads them.  An issue is modelled by its number.             *)
(***************************************************************************)
EXTENDS Integers, Sequences, FiniteSets, TLC

(***************************************************************************)
(* Bounds of the model.                                                    *)
(***************************************************************************)
\* add_task is explored while the list is shorter than this
MaxTasks == 2
\* add_task is explored while next_id is at most this
MaxId == 2
\* characters are pushed while the buffer is shorter than this
MaxInput == 1
\* a cursor that runs past the list is followed up to this index
MaxCursor == 1
\* Scheduler::run is explored while the scheduler has fewer jobs than this
MaxJobs == 2
\* the clock is followed up to this reading
MaxTime == 3
\* the greatest count of an interval given to every
MaxInterval == 2
\* the longest a callback runs
MaxCbTime == 1

(***************************************************************************)
(* usize::MAX, the value `len - 1` wraps to when len = 0 and the build has *)
(* no overflow checks.  The model's integers are narrower than 64 bits, so *)
(* the width is scaled down to 16 bits; the code only compares the value   *)
(* with list lengths and indexes.                                          *)
(***************************************************************************)
UsizeMax == 65535

(***************************************************************************)
(* Option<T> as a sequence of length at most one.                          *)
(***************************************************************************)
None == <<>>

Some(x) == <<x>>

IsSome(o) == Len(o) = 1

Unwrap(o) == o[1]

(***************************************************************************)
(* Key events (crossterm KeyCode).  A one-character string is              *)
(* KeyCode::Char; "Tab" stands for every key code no handler names and "z" *)
(* for every character no handler names.                                   *)
(***************************************************************************)
CharKeys == {"q", "j", "k", "d", "a", "u", "x", "]", "[", "z"}

SpecialKeys == {"Down", "Up", "Enter", "Backspace", "Esc", "Tab"}

KeyCodes == CharKeys \cup SpecialKeys

\* the characters of the descriptions that are followed
TextChars == {"q"}

(***************************************************************************)
(* enum View { Task(Action), Issues(Action) }, Action = View | Add | Update*)
(***************************************************************************)
TaskView(action) == [tab |-> "Task", action |-> action]

IssuesView(action) == [tab |-> "Issues", action |-> action]

\* Hourglass::new: tabs: vec!["tasks", "issues"]
tabs == <<"tasks", "issues">>

(***************************************************************************)
(* struct Task                                                             *)
(***************************************************************************)
Task(id, description, completed) ==
    [id |-> id, description |-> description, completed |-> completed]

(***************************************************************************)
(* The task file.  serde_json::to_string writes a JSON array of the tasks; *)
(* load_tasks itself writes the empty text when it finds no file.          *)
(***************************************************************************)
NoFile == [exists |-> FALSE, kind |-> "none", value |-> <<>>]

EmptyText == [exists |-> TRUE, kind |-> "text", value |-> <<>>]

\* serde_json::to_string(&self.tasks)
to_string(ts) == [exists |-> TRUE, kind |-> "json", value |-> ts]

\* serde_json::from_str::<Vec<Task>>: Ok for a JSON array, Err for any other
\* text (the empty text is "EOF while parsing a value")
from_str(f) ==
    IF f.kind = "json" THEN [ok |-> TRUE, value |-> f.value]
    ELSE [ok |-> FALSE, value |-> <<>>]

\* The task files a run starts from: none (first run), the empty text an
\* earlier run created, or the list an earlier run saved.
InitFiles ==
    { NoFile, EmptyText,
      to_string(<<>>),
      to_string(<<Task(1, <<"q">>, FALSE)>>),
      to_string(<<Task(1, <<>>, TRUE), Task(2, <<"q">>, FALSE)>>) }

VARIABLES
    pc,           \* "load", "run", "exited", "load_error", "panic"
    panic_msg,    \* the message of the panic that ended the process, or ""
    should_quit,  \* Hourglass.should_quit
    input,        \* Hourglass.input
    next_id,      \* Hourglass.next_id
    view,         \* Hourglass.view
    selected,     \* Hourglass.table_state.selected()
    tab_index,    \* Hourglass.tab_index
    tasks,        \* Hourglass.tasks
    issues,       \* Hourglass.issues
    cache,        \* ISSUES_CACHE: the set of <<key, issue list>> entries
    file,         \* the .hourglass file of the current directory
    invalidated,  \* history: update_issues_cache was called, no insert since
    ids_seen,     \* history: every id a task has held in this run
    now,          \* the reading of Instant::now(), in seconds
    jobs,         \* Scheduler.jobs
    handle,       \* the job_index of the JobScheduler that is alive, if any
    invoked       \* the callbacks the last Scheduler::start called, in order

scheduler == <<now, jobs, handle, invoked>>

vars == <<pc, panic_msg, should_quit, input, next_id, view, selected,
          tab_index, tasks, issues, cache, file, invalidated, ids_seen,
          now, jobs, handle, invoked>>

hourglass == <<should_quit, input, next_id, view, selected, tab_index,
               tasks, issues>>

Ids(ts) == {ts[n].id : n \in 1..Len(ts)}

(***************************************************************************)
(* main: Hourglass::new(), before load_tasks.  No Scheduler is made: the   *)
(* model starts with the empty one of Scheduler::new.                      *)
(***************************************************************************)
Init ==
    /\ pc = "load"
    /\ panic_msg = ""
    /\ should_quit = FALSE
    /\ input = <<>>
    /\ next_id = 1
    /\ view = TaskView("View")
    /\ selected = Some(0)
    /\ tab_index = 0
    /\ tasks = <<>>
    /\ issues = <<>>
    /\ cache = {}
    /\ file \in InitFiles
    /\ invalidated = FALSE
    /\ ids_seen = {}
    /\ now = 0
    /\ jobs = <<>>
    /\ handle = None
    /\ invoked = <<>>

(***************************************************************************)
(* Hourglass::load_tasks, and main's `?` on its result.                    *)
(***************************************************************************)
load_tasks ==
    /\ pc = "load"
    /\ IF file.exists
       THEN LET datas == from_str(file) IN
            IF datas.ok
            THEN /\ tasks' = datas.value
                 /\ ids_seen' = Ids(datas.value)
                 /\ pc' = "run"
                 /\ UNCHANGED file
            ELSE /\ pc' = "load_error"
                 /\ UNCHANGED <<tasks, ids_seen, file>>
       ELSE /\ file' = EmptyText
            /\ pc' = "run"
            /\ UNCHANGED <<tasks, ids_seen>>
    /\ UNCHANGED <<panic_msg, should_quit, input, next_id, view, selected,
                   tab_index, issues, cache, invalidated>>
    /\ UNCHANGED scheduler

(***************************************************************************)
(* The two ways a handler ends: it returns to the loop of Hourglass::run,  *)
(* which returns when should_quit is set; or it panics, which ends the     *)
(* process.  A panic leaves the task file as it is and nothing else: the   *)
(* model gives the fields of the dead process the values of Hourglass::new *)
(* and an empty cache.                                                     *)
(***************************************************************************)
Dead ==
    /\ should_quit' = FALSE
    /\ input' = <<>>
    /\ next_id' = 1
    /\ view' = TaskView("View")
    /\ selected' = Some(0)
    /\ tab_index' = 0
    /\ tasks' = <<>>
    /\ issues' = <<>>
    /\ cache' = {}
    /\ ids_seen' = {}
    /\ invalidated' = FALSE
    /\ UNCHANGED file

\* a loop that does not test should_quit
Returns_to_poll ==
    /\ pc' = "run"
    /\ UNCHANGED panic_msg

Returns ==
    /\ pc' = IF should_quit' THEN "exited" ELSE "run"
    /\ UNCHANGED panic_msg

Panics(msg) ==
    /\ pc' = "panic"
    /\ panic_msg' = msg
    /\ Dead

(***************************************************************************)
(* `a - b` on usize.  With overflow checks (the dev profile) a negative    *)
(* difference panics; without them (the release profile) it wraps.         *)
(***************************************************************************)
OverflowMsg == "attempt to subtract with overflow"

usize_sub(a, b) ==
    IF a >= b
    THEN {[panic |-> FALSE, value |-> a - b]}
    ELSE {[panic |-> TRUE, value |-> 0],
          [panic |-> FALSE, value |-> a - b + UsizeMax + 1]}

\* the length of the list the view shows (next, previous)
active_len ==
    IF view.tab = "Task" THEN Len(tasks) ELSE Len(issues)

\* the cursor values the model follows
Followed(i) == i <= MaxCursor \/ i < active_len \/ i = UsizeMax

(***************************************************************************)
(* Hourglass::next and Hourglass::previous, given `len - 1`.               *)
(***************************************************************************)
\* next with `>` for `>=`: the cursor steps past the last row
next_index_past_end(i, last) == IF i > last THEN 0 ELSE i + 1

next_index(i, last) == IF i >= last THEN 0 ELSE i + 1

previous_index(i, last) == IF i = 0 THEN last ELSE i - 1

\* TableState::select(Some(i)), and the handler returns
select(i) ==
    /\ selected' = Some(i)
    /\ UNCHANGED <<should_quit, input, next_id, view, tab_index, tasks,
                   issues, cache, invalidated, file, ids_seen>>
    /\ Returns

next ==
    IF IsSome(selected)
    THEN \E r \in usize_sub(active_len, 1) :
            IF r.panic
            THEN Panics(OverflowMsg)
            ELSE /\ Followed(next_index(Unwrap(selected), r.value))
                 /\ select(next_index(Unwrap(selected), r.value))
    ELSE select(0)

previous ==
    IF IsSome(selected)
    THEN IF Unwrap(selected) = 0
         THEN \E r \in usize_sub(active_len, 1) :
                 IF r.panic
                 THEN Panics(OverflowMsg)
                 ELSE select(previous_index(0, r.value))
         ELSE /\ Followed(previous_index(Unwrap(selected), 0))
              /\ select(previous_index(Unwrap(selected), 0))
    ELSE select(0)

(***************************************************************************)
(* Hourglass::save_tasks                                                   *)
(***************************************************************************)
save_tasks(ts) == file' = to_string(ts)

\* Vec::get_mut(i).is_some()
in_range(ts, i) == i < Len(ts)

(***************************************************************************)
(* Hourglass::toggle_task_status                                           *)
(***************************************************************************)
\* toggle_task_status that sets the flag instead of flipping it
toggled_set_true(ts, sel) ==
    IF IsSome(sel) /\ in_range(ts, Unwrap(sel))
    THEN [ts EXCEPT ![Unwrap(sel) + 1].completed = TRUE]
    ELSE ts

toggled(ts, sel) ==
    IF IsSome(sel) /\ in_range(ts, Unwrap(sel))
    THEN [ts EXCEPT ![Unwrap(sel) + 1].completed = ~@]
    ELSE ts

toggle_task_status ==
    /\ tasks' = toggled(tasks, selected)
    /\ UNCHANGED <<should_quit, input, next_id, view, selected, tab_index,
                   issues, cache, invalidated, file, ids_seen>>
    /\ Returns

(***************************************************************************)
(* Hourglass::add_task                                                     *)
(***************************************************************************)
\* a push to the front of the list
pushed_front(ts, id, description) ==
    <<Task(id, description, FALSE)>> \o ts

pushed(ts, id, description) == Append(ts, Task(id, description, FALSE))

\* add_task that leaves the text in the buffer
add_task_keeps_input ==
    /\ Len(tasks) < MaxTasks
    /\ next_id <= MaxId
    /\ input' = input
    /\ tasks' = pushed(tasks, next_id, input)
    /\ next_id' = next_id + 1
    /\ ids_seen' = ids_seen \cup {next_id}
    /\ save_tasks(tasks')

add_task ==
    /\ Len(tasks) < MaxTasks
    /\ next_id <= MaxId
    /\ input' = <<>>
    /\ tasks' = pushed(tasks, next_id, input)
    /\ next_id' = next_id + 1
    /\ ids_seen' = ids_seen \cup {next_id}
    /\ save_tasks(tasks')

(***************************************************************************)
(* Hourglass::update_task                                                  *)
(***************************************************************************)
updated(ts, sel, description) ==
    [ts EXCEPT ![Unwrap(sel) + 1].description = description]

update_task ==
    /\ IF IsSome(selected) /\ in_range(tasks, Unwrap(selected))
       THEN /\ tasks' = updated(tasks, selected, input)
            /\ save_tasks(tasks')
       ELSE UNCHANGED <<tasks, file>>
    /\ input' = <<>>
    /\ UNCHANGED <<next_id, ids_seen>>

(***************************************************************************)
(* Hourglass::remove_task.  Vec::remove panics when index >= len.          *)
(***************************************************************************)
\* remove_task that pops the last task whatever the index
removed_last(ts, index) == SubSeq(ts, 1, Len(ts) - 1)

removed(ts, index) ==
    [n \in 1..(Len(ts) - 1) |-> IF n <= index THEN ts[n] ELSE ts[n + 1]]

RemoveMsg == "removal index should be < len"

remove_task ==
    IF IsSome(selected) /\ ~in_range(tasks, Unwrap(selected))
    THEN Panics(RemoveMsg)
    ELSE /\ IF IsSome(selected)
            THEN /\ tasks' = removed(tasks, Unwrap(selected))
                 /\ save_tasks(tasks')
            ELSE UNCHANGED <<tasks, file>>
         /\ UNCHANGED <<should_quit, input, next_id, view, selected,
                        tab_index, issues, cache, invalidated, ids_seen>>
         /\ Returns

(***************************************************************************)
(* ISSUES_CACHE: Mutex<HashMap<&str, Vec<RepoIssue>>>, as a set of         *)
(* <<key, value>> entries.                                                 *)
(***************************************************************************)
\* a get that hands out an empty list for a present entry
cache_get_empty(c, key) ==
    IF \E e \in c : e[1] = key THEN Some(<<>>) ELSE None

cache_get(c, key) ==
    IF \E e \in c : e[1] = key
    THEN Some((CHOOSE e \in c : e[1] = key)[2])
    ELSE None

cache_insert(c, key, value) ==
    {e \in c : e[1] # key} \cup {<<key, value>>}

(***************************************************************************)
(* What get_issues meets outside the process: git, the remote's url, the   *)
(* access token, the network and GitHub's answer.                          *)
(***************************************************************************)
RemoteIssueLists == {<<>>, <<2, 1>>}

NoneKinds == {"no_remote", "fatal", "no_match"}

PanicKinds == {"no_git", "bad_url", "no_repo_name", "no_token",
               "network_error", "malformed"}

Remotes ==
    {[kind |-> k, issues |-> <<>>] : k \in NoneKinds \cup PanicKinds}
        \cup {[kind |-> "ok", issues |-> l] : l \in RemoteIssueLists}

\* the message of the `expect` that fails
expect_msg(kind) ==
    CASE kind = "no_git" -> "Failed to get git remotes"
      [] kind = "bad_url" -> "Unable to parse Git url"
      [] kind = "no_repo_name" -> "Unable to get name of repo"
      [] kind = "no_token" -> "unable to get github access token"
      [] kind = "network_error" -> "Unable to get issues"
      [] kind = "malformed" -> "Unable to parse json resposne"
      [] OTHER -> ""

(***************************************************************************)
(* issues::get_issues: the panic message (or ""), the returned option and  *)
(* the cache it leaves.                                                    *)
(***************************************************************************)
\* get_issues that does not look in the cache
get_issues_always_fetches(c, remote) ==
    IF remote.kind \in PanicKinds
    THEN [panic |-> expect_msg(remote.kind), result |-> None, cache |-> c,
          inserted |-> FALSE]
    ELSE IF remote.kind \in NoneKinds
    THEN [panic |-> "", result |-> None, cache |-> c, inserted |-> FALSE]
    ELSE [panic |-> "", result |-> Some(remote.issues),
          cache |-> cache_insert(c, "issues", remote.issues),
          inserted |-> TRUE]

get_issues(c, remote) ==
    IF IsSome(cache_get(c, "issues"))
    THEN [panic |-> "", result |-> Some(Unwrap(cache_get(c, "issues"))),
          cache |-> c, inserted |-> FALSE]
    ELSE IF remote.kind \in PanicKinds
    THEN [panic |-> expect_msg(remote.kind), result |-> None, cache |-> c,
          inserted |-> FALSE]
    ELSE IF remote.kind \in NoneKinds
    THEN [panic |-> "", result |-> None, cache |-> c, inserted |-> FALSE]
    ELSE [panic |-> "", result |-> Some(remote.issues),
          cache |-> cache_insert(c, "issues", remote.issues),
          inserted |-> TRUE]

(***************************************************************************)
(* cache::update_issues_cache: an empty function.                          *)
(***************************************************************************)
update_issues_cache ==
    /\ pc = "run"
    /\ invalidated' = TRUE
    /\ UNCHANGED <<pc, panic_msg, hourglass, cache, file, ids_seen>>
    /\ UNCHANGED scheduler

(***************************************************************************)
(* Hourglass::update_view, with the tab index its caller has set.          *)
(***************************************************************************)
\* the "tasks" arm without its assignment to view
show_tasks_keeps_view(index) ==
    /\ tab_index' = index
    /\ selected' = None
    /\ UNCHANGED <<should_quit, input, next_id, view, tasks, issues, cache,
                   invalidated, file, ids_seen>>
    /\ Returns

show_tasks(index) ==
    /\ tab_index' = index
    /\ view' = TaskView("View")
    /\ selected' = None
    /\ UNCHANGED <<should_quit, input, next_id, tasks, issues, cache,
                   invalidated, file, ids_seen>>
    /\ Returns

\* the "issues" arm, when get_issues meets `remote`
show_issues(index, remote) ==
    LET r == get_issues(cache, remote) IN
    IF r.panic # ""
    THEN Panics(r.panic)
    ELSE /\ tab_index' = index
         /\ view' = IssuesView("View")
         /\ issues' = IF IsSome(r.result) THEN Unwrap(r.result) ELSE <<>>
         /\ cache' = r.cache
         /\ invalidated' = (invalidated /\ ~r.inserted)
         /\ selected' = None
         /\ UNCHANGED <<should_quit, input, next_id, tasks, file, ids_seen>>
         /\ Returns

update_view(index) ==
    IF tabs[index + 1] = "tasks"
    THEN show_tasks(index)
    ELSE \E remote \in Remotes : show_issues(index, remote)

next_tab == update_view((tab_index + 1) % Len(tabs))

previous_tab ==
    update_view(IF tab_index > 0 THEN tab_index - 1 ELSE Len(tabs) - 1)

(***************************************************************************)
(* Hourglass::update_command_input                                         *)
(***************************************************************************)
\* update_command_input whose Esc arm forgets the buffer
update_command_input_esc_keeps_text(key_code) ==
    /\ UNCHANGED <<should_quit, selected, tab_index, issues, cache,
                   invalidated>>
    /\ \/ /\ key_code \in CharKeys
          /\ Len(input) < MaxInput
          /\ input' = Append(input, key_code)
          /\ UNCHANGED <<next_id, view, tasks, file, ids_seen>>
       \/ /\ key_code = "Enter"
          /\ view = TaskView("Add")
          /\ add_task
          /\ view' = TaskView("View")
       \/ /\ key_code = "Enter"
          /\ view = TaskView("Update")
          /\ update_task
          /\ view' = TaskView("View")
       \/ /\ key_code = "Backspace"
          /\ input' = IF input = <<>> THEN input
                      ELSE SubSeq(input, 1, Len(input) - 1)
          /\ UNCHANGED <<next_id, view, tasks, file, ids_seen>>
       \/ /\ key_code = "Esc"
          /\ view' = TaskView("View")
          /\ UNCHANGED <<input, next_id, tasks, file, ids_seen>>
       \/ /\ key_code \in {"Down", "Up", "Tab"}
          /\ UNCHANGED <<input, next_id, view, tasks, file, ids_seen>>
    /\ Returns

update_command_input(key_code) ==
    /\ UNCHANGED <<should_quit, selected, tab_index, issues, cache,
                   invalidated>>
    /\ \/ /\ key_code \in CharKeys
          /\ Len(input) < MaxInput
          /\ input' = Append(input, key_code)
          /\ UNCHANGED <<next_id, view, tasks, file, ids_seen>>
       \/ /\ key_code = "Enter"
          /\ view = TaskView("Add")
          /\ add_task
          /\ view' = TaskView("View")
       \/ /\ key_code = "Enter"
          /\ view = TaskView("Update")
          /\ update_task
          /\ view' = TaskView("View")
       \/ /\ key_code = "Backspace"
          /\ input' = IF input = <<>> THEN input
                      ELSE SubSeq(input, 1, Len(input) - 1)
          /\ UNCHANGED <<next_id, view, tasks, file, ids_seen>>
       \/ /\ key_code = "Esc"
          /\ input' = <<>>
          /\ view' = TaskView("View")
          /\ UNCHANGED <<next_id, tasks, file, ids_seen>>
       \/ /\ key_code \in {"Down", "Up", "Tab"}
          /\ UNCHANGED <<input, next_id, view, tasks, file, ids_seen>>
    /\ Returns

(***************************************************************************)
(* The arms of handle_key_for_task_view and handle_key_for_issues_view     *)
(* that do their work in place.                                            *)
(***************************************************************************)
quit ==
    /\ should_quit' = TRUE
    /\ UNCHANGED <<input, next_id, view, selected, tab_index, tasks, issues,
                   cache, invalidated, file, ids_seen>>
    /\ Returns

set_view(v) ==
    /\ view' = v
    /\ UNCHANGED <<should_quit, input, next_id, selected, tab_index, tasks,
                   issues, cache, invalidated, file, ids_seen>>
    /\ Returns

ignore ==
    /\ UNCHANGED <<hourglass, cache, invalidated, file, ids_seen>>
    /\ Returns

(***************************************************************************)
(* Hourglass::handle_key_for_task_view                                     *)
(***************************************************************************)
handle_key_for_task_view(key_code) ==
    \/ key_code = "q" /\ quit
    \/ key_code \in {"j", "Down"} /\ next
    \/ key_code \in {"k", "Up"} /\ previous
    \/ key_code = "d" /\ toggle_task_status
    \/ key_code = "a" /\ set_view(TaskView("Add"))
    \/ key_code = "u" /\ set_view(TaskView("Update"))
    \/ key_code = "x" /\ remove_task
    \/ key_code = "]" /\ next_tab
    \/ key_code = "[" /\ previous_tab
    \/ key_code \in {"z", "Enter", "Backspace", "Esc", "Tab"} /\ ignore

(***************************************************************************)
(* Hourglass::handle_key_for_issues_view                                   *)
(***************************************************************************)
handle_key_for_issues_view(key_code) ==
    \/ key_code = "q" /\ quit
    \/ key_code \in {"j", "Down"} /\ next
    \/ key_code \in {"k", "Up"} /\ previous
    \/ key_code = "]" /\ next_tab
    \/ key_code = "[" /\ previous_tab
    \/ /\ key_code \in {"d", "a", "u", "x", "z", "Enter", "Backspace",
                        "Esc", "Tab"}
       /\ ignore

(***************************************************************************)
(* Hourglass::handle_input                                                 *)
(***************************************************************************)
\* a dispatch on the tab alone, the action not looked at
handle_input_by_tab(key_code) ==
    \/ view.tab = "Task" /\ handle_key_for_task_view(key_code)
    \/ view.tab = "Issues" /\ handle_key_for_issues_view(key_code)

handle_input(key_code) ==
    \/ view = TaskView("View") /\ handle_key_for_task_view(key_code)
    \/ view = IssuesView("View") /\ handle_key_for_issues_view(key_code)
    \/ view.action # "View" /\ update_command_input(key_code)

(***************************************************************************)
(* One iteration of the loop of Hourglass::run: the poll delivers a key,   *)
(* or times out.  In a text mode the user of key_event types the           *)
(* characters of TextChars only.                                           *)
(***************************************************************************)
Typed(key_code) ==
    (view.action # "View" /\ key_code \in CharKeys) => key_code \in TextChars

key_event ==
    /\ pc = "run"
    /\ \E key_code \in KeyCodes :
          /\ Typed(key_code)
          /\ handle_input(key_code)
    /\ UNCHANGED scheduler

poll_timeout ==
    /\ pc = "run"
    /\ UNCHANGED vars

Next ==
    \/ load_tasks
    \/ key_event
    \/ poll_timeout

Spec == Init /\ [][Next]_vars

(***************************************************************************)
(* The program together with a caller of cache::update_issues_cache, which *)
(* the program itself never calls.                                         *)
(***************************************************************************)
NextCache ==
    \/ Next
    \/ update_issues_cache

SpecCache == Init /\ [][NextCache]_vars

(***************************************************************************)
(* Sessions: the program is started again, on the task file the last run   *)
(* left, after the loop has returned or the load has failed.  The first    *)
(* run finds no task file, so every file met is one the program wrote.     *)
(***************************************************************************)
restart ==
    /\ pc \in {"exited", "load_error"}
    /\ pc' = "load"
    /\ panic_msg' = ""
    /\ Dead
    /\ UNCHANGED scheduler

InitSessions == Init /\ file = NoFile

NextSessions ==
    \/ Next
    \/ restart

SpecSessions == InitSessions /\ [][NextSessions]_vars

(***************************************************************************)
(* The program with a user who types every character in a text mode and   *)
(* ends text entry with Esc, never with Enter: the task lists are those of *)
(* the task files, with tasks toggled and removed.                         *)
(***************************************************************************)
Cancelled(key_code) == view.action # "View" => key_code # "Enter"

typing_event ==
    /\ pc = "run"
    /\ \E key_code \in KeyCodes :
          /\ Cancelled(key_code)
          /\ handle_input(key_code)
    /\ UNCHANGED scheduler

NextTyping ==
    \/ load_tasks
    \/ typing_event
    \/ poll_timeout

SpecTyping == Init /\ [][NextTyping]_vars

(***************************************************************************)
(* app/scheduler.rs.  enum Time, and the seconds Scheduler::start makes of *)
(* it.  The counts are small: no product leaves u64.                       *)
(***************************************************************************)
Seconds(n) == [unit |-> "Seconds", n |-> n]

Minutes(n) == [unit |-> "Minutes", n |-> n]

Hours(n) == [unit |-> "Hours", n |-> n]

\* the intervals a caller gives to every
Intervals ==
    {Seconds(n) : n \in 0..MaxInterval} \cup {Minutes(1), Hours(1)}

\* the match of Scheduler::start
duration(interval) ==
    CASE interval.unit = "Seconds" -> interval.n * 1
      [] interval.unit = "Minutes" -> interval.n * 60
      [] interval.unit = "Hours" -> interval.n * 60 * 60

\* Instant::elapsed of an instant read at `since`, at the reading t
elapsed(since, t) == t - since

(***************************************************************************)
(* struct Job; the callback is modelled by the record of its calls.        *)
(***************************************************************************)
Job_new(t) == [interval |-> None, last_tick |-> t]

Job_schedule(job, s) == [job EXCEPT !.interval = Some(s)]

\* a job that is due whenever it has an interval: the comparison lost
is_due_always(job, t) == IsSome(job.interval)

\* a job with no interval taken for one of interval zero
is_due_unscheduled(job, t) ==
    IF IsSome(job.interval)
    THEN elapsed(job.last_tick, t) >= duration(Unwrap(job.interval))
    ELSE elapsed(job.last_tick, t) >= 0

\* `if let Some(interval)` and `last_tick.elapsed() >= from_secs(duration)`
is_due(job, t) ==
    /\ IsSome(job.interval)
    /\ elapsed(job.last_tick, t) >= duration(Unwrap(job.interval))

\* the assignment after the callback, left out
fired_keeps_last_tick(job, t) == job

\* job.last_tick = Instant::now()
fired(job, t) == [job EXCEPT !.last_tick = t]

\* how long callbacks run
CbTimes == 0..MaxCbTime

RECURSIVE start_from(_, _, _, _)
\* the loop of Scheduler::start from the job at index k (from 0), entered at
\* the reading t with the calls in log made: the set of its outcomes, one for
\* every way the callbacks take their time
start_from(js, k, t, log) ==
    IF k >= Len(js)
    THEN {[jobs |-> js, now |-> t, invoked |-> log]}
    ELSE IF is_due(js[k + 1], t)
    THEN UNION { start_from([js EXCEPT ![k + 1] = fired(js[k + 1], t + d)],
                            k + 1, t + d,
                            Append(log, [job_index |-> k, at |-> t]))
                 : d \in {c \in CbTimes : t + c <= MaxTime} }
    ELSE start_from(js, k + 1, t, log)

(***************************************************************************)
(* Scheduler::run: a new job, and the JobScheduler that borrows the        *)
(* scheduler until it is dropped.                                          *)
(***************************************************************************)
Scheduler_run ==
    /\ Len(jobs) < MaxJobs
    /\ jobs' = Append(jobs, Job_new(now))
    /\ handle' = Some(Len(jobs') - 1)
    /\ UNCHANGED <<now, invoked>>
    /\ UNCHANGED <<pc, panic_msg, hourglass, cache, file, invalidated,
                   ids_seen>>

(***************************************************************************)
(* JobScheduler::every, on the JobScheduler that is alive.                 *)
(***************************************************************************)
JobScheduler_every ==
    /\ IsSome(handle)
    /\ \E interval \in Intervals :
          jobs' = [jobs EXCEPT ![Unwrap(handle) + 1] =
                                   Job_schedule(@, interval)]
    /\ UNCHANGED <<now, handle, invoked>>
    /\ UNCHANGED <<pc, panic_msg, hourglass, cache, file, invalidated,
                   ids_seen>>

(***************************************************************************)
(* Scheduler::start: one pass over the jobs.  The JobScheduler is dropped  *)
(* by then (it holds the scheduler's only mutable borrow).                 *)
(***************************************************************************)
Scheduler_start ==
    /\ \E r \in start_from(jobs, 0, now, <<>>) :
          /\ jobs' = r.jobs
          /\ now' = r.now
          /\ invoked' = r.invoked
    /\ handle' = None
    /\ UNCHANGED <<pc, panic_msg, hourglass, cache, file, invalidated,
                   ids_seen>>

\* a second of time goes by between two calls
time_passes ==
    /\ now < MaxTime
    /\ now' = now + 1
    /\ UNCHANGED <<jobs, handle, invoked>>
    /\ UNCHANGED <<pc, panic_msg, hourglass, cache, file, invalidated,
                   ids_seen>>

(***************************************************************************)
(* A caller of the scheduler: it registers jobs, gives them intervals and  *)
(* calls start as time goes by.  The program itself is not started.        *)
(***************************************************************************)
InitScheduler == Init /\ file = NoFile

NextScheduler ==
    \/ Scheduler_run
    \/ JobScheduler_every
    \/ Scheduler_start
    \/ time_passes

SpecScheduler == InitScheduler /\ [][NextScheduler]_vars
(***************************************************************************)
(* Properties of the task list.                                            *)
(***************************************************************************)
DistinctIds(ts) ==
    \A m, n \in 1..Len(ts) : m # n => ts[m].id # ts[n].id

\* C1: in every state of a run the tasks have pairwise distinct ids, and
\* the id add_task gives a new task is none that a task held earlier in the
\* run (loaded, added or removed since).
C1_IdsUniqueNeverReused ==
    /\ [](pc = "run" => DistinctIds(tasks))
    /\ [][(pc = "run" /\ pc' = "run" /\ Len(tasks') = Len(tasks) + 1)
            => tasks'[Len(tasks')].id \notin ids_seen]_vars

(***************************************************************************)
(* Properties of the cursor.                                               *)
(***************************************************************************)
\* C2: from Hourglass::new on, the cursor is an index of the active list
\* when that list is not empty, and no selection exactly when it is empty.
C2_CursorInActiveList ==
    pc \in {"load", "run", "exited"} =>
        IF active_len = 0
        THEN selected = None
        ELSE IsSome(selected) /\ Unwrap(selected) \in 0..(active_len - 1)

Viewing == pc = "run" /\ view.action = "View"

\* C3: with an empty active list, j / Down and k / Up in a Viewing mode
\* change nothing and do not end the process.
C3_NavigationOnEmptyListIsNoOp ==
    [][(Viewing /\ active_len = 0 /\ (next \/ previous))
         => UNCHANGED vars]_vars

CursorOnRow == IsSome(selected) /\ Unwrap(selected) < active_len

RECURSIVE nexts(_, _, _)
\* the index after n applications of next to index i of a list of length len
nexts(i, len, n) ==
    IF n = 0 THEN i ELSE nexts(next_index(i, len - 1), len, n - 1)

RECURSIVE previouses(_, _, _)
previouses(i, len, n) ==
    IF n = 0 THEN i ELSE previouses(previous_index(i, len - 1), len, n - 1)

\* C4: on an active list of N >= 1 rows with the cursor on row i, next moves
\* the cursor to i + 1, and from N - 1 to 0; previous moves it to i - 1, and
\* from 0 to N - 1; so N applications of either bring the cursor back to i.
C4_NavigationWraps ==
    [][(Viewing /\ CursorOnRow) =>
         LET i == Unwrap(selected)
             N == active_len
         IN  /\ next => /\ pc' = "run"
                        /\ selected' = Some(IF i = N - 1 THEN 0 ELSE i + 1)
                        /\ nexts(i, N, N) = i
             /\ previous => /\ pc' = "run"
                            /\ selected' = Some(IF i = 0 THEN N - 1 ELSE i - 1)
                            /\ previouses(i, N, N) = i]_vars

\* a state only next or previous leads to: the cursor on the second row
C4_Witness ==
    /\ pc = "run"
    /\ view = TaskView("View")
    /\ Len(tasks) = 2
    /\ selected = Some(1)

(***************************************************************************)
(* Properties of toggle and remove.                                        *)
(***************************************************************************)
TaskViewing == pc = "run" /\ view = TaskView("View")

CursorOnTask == IsSome(selected) /\ Unwrap(selected) < Len(tasks)

\* C5: d in Task/Viewing with the cursor on a task flips that task's
\* completed flag and nothing else: ids, descriptions, the other flags, the
\* order, the cursor and the mode stay, and a second d restores the flag.
C5_ToggleFlipsSelectedOnly ==
    [][(TaskViewing /\ CursorOnTask /\ toggle_task_status) =>
         LET k == Unwrap(selected) + 1 IN
         /\ pc' = "run"
         /\ Len(tasks') = Len(tasks)
         /\ tasks'[k].completed = ~tasks[k].completed
         /\ tasks'[k].id = tasks[k].id
         /\ tasks'[k].description = tasks[k].description
         /\ \A n \in 1..Len(tasks) : n # k => tasks'[n] = tasks[n]
         /\ selected' = selected
         /\ view' = view
         /\ toggled(tasks', selected') = tasks]_vars

\* a state only d leads to: a flag that differs from the saved one
C5_Witness ==
    /\ pc = "run"
    /\ file.kind = "json"
    /\ Len(file.value) = Len(tasks)
    /\ \E n \in 1..Len(tasks) :
          /\ tasks[n].completed # file.value[n].completed
          /\ tasks[n].id = file.value[n].id

\* C6: x in Task/Viewing with the cursor on row k of N tasks leaves the
\* N - 1 other tasks, each with its id, description and flag, in their order.
C6_RemoveDeletesOneTask ==
    [][(TaskViewing /\ CursorOnTask /\ remove_task) =>
         LET k == Unwrap(selected) IN
         /\ pc' = "run"
         /\ Len(tasks') = Len(tasks) - 1
         /\ tasks' = SubSeq(tasks, 1, k)
                      \o SubSeq(tasks, k + 2, Len(tasks))]_vars

\* a state only x leads to: of the two loaded tasks the second is left
C6_Witness ==
    /\ pc = "run"
    /\ next_id = 1
    /\ Len(tasks) = 1
    /\ tasks[1].id = 2
    /\ file = to_string(tasks)

(***************************************************************************)
(* Properties of the issue fetch and the cache.                            *)
(***************************************************************************)
\* no remote configured, no access token, a network error, a malformed
\* response
FailingRemotes ==
    {r \in Remotes : r.kind \in {"no_remote", "fatal", "no_token",
                                  "network_error", "malformed"}}

NoEntry(c) == \A e \in c : e[1] # "issues"

\* the step from the Task tab to the Issue tab when get_issues meets remote
EnterIssues(remote) ==
    /\ TaskViewing
    /\ \/ show_issues((tab_index + 1) % Len(tabs), remote)
       \/ show_issues(IF tab_index > 0 THEN tab_index - 1 ELSE Len(tabs) - 1,
                      remote)

\* C7: entering the Issue tab with no cache entry and a fetch that fails,
\* for whatever reason, ends in Issue/Viewing with an empty issue list and
\* the process running.
C7_FailedFetchShowsEmptyList ==
    [][\A remote \in FailingRemotes :
          (NoEntry(cache) /\ EnterIssues(remote)) =>
              /\ pc' = "run"
              /\ view' = IssuesView("View")
              /\ issues' = <<>>]_vars

\* C8: once update_issues_cache (the refresh) was called, the cache has no
\* entry until a fetch inserts one: no earlier list stays in the slot.
C8_RefreshLeavesNoStaleEntry ==
    (pc = "run" /\ invalidated) => NoEntry(cache)

\* C9: the cache holds at most one entry, under the key "issues", and the
\* list of an entry is never empty.
C9_CacheEntryNeverEmpty ==
    /\ Cardinality(cache) <= 1
    /\ \A e \in cache : e[1] = "issues" /\ e[2] # <<>>

\* C10: a fetch that succeeds leaves its list in the cache under "issues"
\* and shows it; and entering the Issue tab with an entry in the cache shows
\* the list of that entry and leaves the cache as it is.
C10_CachedListIsShown ==
    [][/\ \A remote \in Remotes :
             (remote.kind = "ok" /\ NoEntry(cache) /\ EnterIssues(remote)) =>
                 /\ <<"issues", remote.issues>> \in cache'
                 /\ issues' = remote.issues
       /\ (TaskViewing /\ pc' = "run" /\ view'.tab = "Issues") =>
             \A e \in cache : e[1] = "issues" =>
                 (issues' = e[2] /\ cache' = cache)]_vars

\* a fetched list in the cache and on the Issue tab
C10_Witness ==
    /\ pc = "run"
    /\ view = IssuesView("View")
    /\ issues = <<2, 1>>
    /\ cache = {<<"issues", <<2, 1>>>>}

(***************************************************************************)
(* The program with a scheduler beside it and no key pressed: a caller     *)
(* registers jobs before the loop of Hourglass::run starts, and time goes  *)
(* by while the loop polls.  Nothing in the loop calls Scheduler::start.   *)
(***************************************************************************)
\* an iteration whose poll waits out its timeout while the clock reaches
\* its next second
wait_iteration ==
    /\ pc = "run"
    /\ time_passes

register_job ==
    /\ pc = "load"
    /\ (Scheduler_run \/ JobScheduler_every)

InitLoop == Init /\ file = NoFile

NextLoop ==
    \/ register_job
    \/ load_tasks
    \/ poll_timeout
    \/ wait_iteration

SpecLoop == InitLoop /\ [][NextLoop]_vars

(***************************************************************************)
(* Properties of the scheduler.                                            *)
(***************************************************************************)
\* the calls of the callback of the job at job_index in a log
CallsOf(log, job_index) ==
    {n \in 1..Len(log) : log[n].job_index = job_index}

Scheduled(job) == IsSome(job.interval)

\* C11: a job with interval T is fired by a tick only when at least T has
\* elapsed since it was registered (while it has not fired) or since it last
\* fired: last_tick is the reading at registration, it moves only when the
\* job fires, and a tick that reads less than last_tick + T calls nothing.
C11_NoFireBeforeInterval ==
    [][/\ Scheduler_run => jobs'[Len(jobs')].last_tick = now
       /\ \A j \in 1..Len(jobs) :
             jobs'[j].last_tick # jobs[j].last_tick
                 => (Scheduler_start /\ CallsOf(invoked', j - 1) # {})
       /\ Scheduler_start =>
             \A n \in 1..Len(invoked') :
                LET job == jobs[invoked'[n].job_index + 1] IN
                Scheduled(job) =>
                    /\ invoked'[n].at >= now
                    /\ invoked'[n].at - job.last_tick
                           >= duration(Unwrap(job.interval))]_vars

\* a job of interval two seconds fired by the tick at the reading two
C11_Witness ==
    /\ Len(jobs) >= 1
    /\ jobs[1].interval = Some(Seconds(2))
    /\ jobs[1].last_tick >= 2
    /\ invoked = <<[job_index |-> 0, at |-> 2]>>

\* C12: a tick calls the callback of every job that has an interval T and is
\* due (elapsed >= T) exactly once, however many intervals have elapsed, and
\* sets its last_tick to the reading after the call; so a tick that comes to
\* the job at the very reading of its last_tick does not call it when T > 0.
C12_FiresOncePerTick ==
    [][Scheduler_start =>
         \A j \in 1..Len(jobs) :
            /\ (Scheduled(jobs[j])
                /\ now - jobs[j].last_tick
                       >= duration(Unwrap(jobs[j].interval)))
                  => /\ Cardinality(CallsOf(invoked', j - 1)) = 1
                     /\ \A n \in CallsOf(invoked', j - 1) :
                           /\ jobs'[j].last_tick >= invoked'[n].at
                           /\ jobs'[j].last_tick <= now'
            /\ Cardinality(CallsOf(invoked', j - 1)) <= 1
            /\ (Scheduled(jobs[j])
                /\ duration(Unwrap(jobs[j].interval)) > 0)
                  => \A n \in CallsOf(invoked', j - 1) :
                        invoked'[n].at > jobs[j].last_tick]_vars

\* one tick that fired two jobs, the first three intervals after its
\* registration
C12_Witness ==
    /\ Len(jobs) = 2
    /\ jobs[1].interval = Some(Seconds(1))
    /\ Len(invoked) = 2
    /\ invoked[1] = [job_index |-> 0, at |-> 3]
    /\ invoked[2].job_index = 1

\* C13: no tick calls the callback of a job that has no interval, however
\* long ago it was registered; and a job that has an interval keeps having
\* one (and stays in the scheduler).
C13_DormantNeverFires ==
    [][/\ Scheduler_start =>
             \A n \in 1..Len(invoked') :
                Scheduled(jobs[invoked'[n].job_index + 1])
       /\ \A j \in 1..Len(jobs) :
             Scheduled(jobs[j]) => (Len(jobs') >= j /\ Scheduled(jobs'[j]))
       /\ Len(jobs') >= Len(jobs)]_vars

\* a tick that fired the second job and left the first, registered three
\* seconds earlier with no interval, alone
C13_Witness ==
    /\ Len(jobs) = 2
    /\ ~Scheduled(jobs[1])
    /\ now - jobs[1].last_tick = 3
    /\ Len(invoked) = 1
    /\ invoked[1].job_index = 1

(***************************************************************************)
(* Properties of the loop of Hourglass::run.                               *)
(***************************************************************************)
\* C14: every iteration of the loop, with or without a key, advances the
\* scheduler once before it polls: each job that is due when the iteration
\* starts has its callback called once in it and its last_tick set anew.
C14_LoopAdvancesScheduler ==
    [][(key_event \/ wait_iteration) =>
         \A j \in 1..Len(jobs) :
            is_due(jobs[j], now) =>
                /\ Cardinality(CallsOf(invoked', j - 1)) = 1
                /\ jobs'[j].last_tick >= now]_vars

\* C15: q in Task/Viewing or Issue/Viewing sets should_quit, leaves the view
\* as it is, and the loop returns in that iteration; should_quit, once set,
\* stays set; and the loop returns only with should_quit set.
C15_QuitEndsLoop ==
    [][/\ (Viewing /\ handle_input("q")) =>
             /\ should_quit'
             /\ view' = view
             /\ pc' = "exited"
       /\ should_quit => should_quit'
       /\ pc' = "exited" => should_quit']_vars

\* the loop has returned from the Issue tab
C15_Witness ==
    /\ pc = "exited"
    /\ should_quit
    /\ view = IssuesView("View")

(***************************************************************************)
(* Properties of text entry.                                               *)
(***************************************************************************)
TextEntry == pc = "run" /\ view.action \in {"Add", "Update"}

\* C16: in Task/Adding and Task/Updating every character key, q [ ] j k a u
\* d x among them, is appended to the text buffer and does nothing else:
\* the tab, the view, the cursor, the tasks, the issues and should_quit
\* stay, and the loop goes on.
C16_TextEntryTakesEveryCharacter ==
    [][\A c \in CharKeys :
          (TextEntry /\ handle_input(c)) =>
              /\ input' = Append(input, c)
              /\ UNCHANGED <<tab_index, view, selected, tasks, issues,
                             should_quit>>
              /\ pc' = "run"]_vars

\* "]" typed into the buffer of Task/Updating, with the Issue tab not entered
C16_Witness ==
    /\ pc = "run"
    /\ view = TaskView("Update")
    /\ input = <<"]">>
    /\ tab_index = 0
    /\ Len(tasks) = 2

(***************************************************************************)
(* Properties of the task file.                                            *)
(***************************************************************************)
\* C17: a key event that changes the task list (Enter in Adding or
\* Updating, d, x) returns to the loop with the task file holding the task
\* list as it is in memory.
C17_MutationsArePersisted ==
    [][(key_event /\ tasks' # tasks /\ pc' # "panic") =>
         /\ from_str(file').ok
         /\ from_str(file').value = tasks']_vars

\* C18: load_tasks succeeds on every task file the program itself left: with
\* no file it makes one and the list is empty; on the file a run made when
\* it found none the list is empty; on a file save_tasks wrote the list is
\* the one written.
C18_LoadAcceptsOwnStorage ==
    [][load_tasks =>
         /\ pc' = "run"
         /\ file'.exists
         /\ file.kind \in {"none", "text"} => tasks' = <<>>
         /\ file.kind = "json" => tasks' = file.value]_vars

(***************************************************************************)
(* Properties of the keys that open text entry.                            *)
(***************************************************************************)
\* C19: u in Task/Viewing with the cursor on a task opens Task/Updating with
\* the text buffer holding that task's description.
C19_UpdateSeedsBuffer ==
    [][(TaskViewing /\ CursorOnTask /\ handle_input("u")) =>
         /\ view' = TaskView("Update")
         /\ input' = tasks[Unwrap(selected) + 1].description]_vars

\* C20: a in Task/Viewing opens Task/Adding with an empty text buffer,
\* whatever was typed, committed or cancelled before, and leaves the task
\* list and the cursor as they are.
C20_AddOpensEmptyBuffer ==
    [][(TaskViewing /\ handle_input("a")) =>
         /\ pc' = "run"
         /\ view' = TaskView("Add")
         /\ input' = <<>>
         /\ tasks' = tasks
         /\ selected' = selected]_vars

\* Task/Adding opened again, with an empty buffer, after a typed description
\* was committed
C20_Witness ==
    /\ pc = "run"
    /\ view = TaskView("Add")
    /\ input = <<>>
    /\ Len(tasks) >= 1
    /\ tasks[Len(tasks)].description = <<"q">>
    /\ next_id = 2

(***************************************************************************)
(* Properties of the tab keys.                                             *)
(***************************************************************************)
OtherTab(v) == IF v.tab = "Task" THEN IssuesView("View") ELSE TaskView("View")

\* C21: [ and ] in a Viewing mode, when the switch does not end the
\* process, show the other tab in its Viewing mode with the cursor on index
\* 0; with two tabs the two keys do the same.
C21_TabSwitchResetsCursor ==
    [][\A key_code \in {"[", "]"} :
          (Viewing /\ handle_input(key_code) /\ pc' = "run") =>
              /\ view' = OtherTab(view)
              /\ tab_index' = 1 - tab_index
              /\ selected' = Some(0)]_vars

(***************************************************************************)
(* Properties of Enter and Esc in text entry.                              *)
(***************************************************************************)
\* C22: Enter in Task/Adding appends one task to the end of the list, with
\* the text of the buffer as its description and completed false, leaves the
\* tasks before it as they are, empties the buffer and shows Task/Viewing;
\* the first task added to a list that was loaded empty has id 1.
C22_EnterInAddingAppendsTask ==
    [][(pc = "run" /\ view = TaskView("Add") /\ handle_input("Enter")) =>
         /\ pc' = "run"
         /\ Len(tasks') = Len(tasks) + 1
         /\ SubSeq(tasks', 1, Len(tasks)) = tasks
         /\ tasks'[Len(tasks')].description = input
         /\ tasks'[Len(tasks')].completed = FALSE
         /\ input' = <<>>
         /\ view' = TaskView("View")
         /\ (tasks = <<>> /\ ids_seen = {})
               => tasks'[Len(tasks')].id = 1]_vars

\* "q" added as task 1 to a list that was loaded empty, and saved
C22_Witness ==
    /\ pc = "run"
    /\ view = TaskView("View")
    /\ tasks = <<Task(1, <<"q">>, FALSE)>>
    /\ ids_seen = {1}
    /\ next_id = 2
    /\ file = to_string(tasks)

\* C23: Enter in Task/Updating with a task list that is not empty gives the
\* selected task the text of the buffer as its description, leaves its id,
\* its flag, its place and every other task as they are, empties the buffer
\* and shows Task/Viewing.
C23_EnterInUpdatingRewritesSelected ==
    [][(pc = "run" /\ view = TaskView("Update") /\ tasks # <<>>
          /\ handle_input("Enter")) =>
         /\ pc' = "run"
         /\ \E k \in 1..Len(tasks) :
               /\ selected = Some(k - 1)
               /\ tasks' = [tasks EXCEPT ![k].description = input]
         /\ input' = <<>>
         /\ view' = TaskView("View")]_vars

\* C24: Esc in Task/Adding or Task/Updating shows Task/Viewing with an empty
\* buffer and commits nothing; and no key that leaves text entry open
\* touches the task list, the task file or the cursor, so after Esc they are
\* what they were when text entry began.
C24_EscDiscardsText ==
    [][/\ (TextEntry /\ handle_input("Esc")) =>
             /\ pc' = "run"
             /\ view' = TaskView("View")
             /\ input' = <<>>
             /\ UNCHANGED <<tasks, file, selected, next_id>>
       /\ (TextEntry /\ pc' = "run" /\ view'.action # "View") =>
             UNCHANGED <<tasks, file, selected, next_id>>]_vars

\* text in the buffer of Task/Adding, the cursor on the second of two tasks:
\* the state Esc is pressed in
C24_Witness ==
    /\ pc = "run"
    /\ view = TaskView("Add")
    /\ input = <<"x">>
    /\ Len(tasks) = 2
    /\ selected = Some(1)
    /\ file = to_string(tasks)

(***************************************************************************)
(* Properties of operations on a cursor that selects no task.              *)
(***************************************************************************)
\* C25: with a cursor that selects no task (empty list, no selection, or an
\* index at or past the length), d and x in Task/Viewing and Enter in
\* Task/Updating leave the task list as it is and the process running.
C25_NoTaskSelectedIsNoOp ==
    [][(/\ pc = "run"
        /\ ~CursorOnTask
        /\ \/ view = TaskView("View") /\ handle_input("d")
           \/ view = TaskView("View") /\ handle_input("x")
           \/ view = TaskView("Update") /\ handle_input("Enter")) =>
         /\ pc' = "run"
         /\ tasks' = tasks]_vars

Max(S) == CHOOSE m \in S : \A n \in S : n <= m

\* C26: the id add gives a task is one more than the greatest id in the
\* task list, or 1 when the list is empty.
C26_NewIdIsMaxPlusOne ==
    [][(pc = "run" /\ view = TaskView("Add") /\ handle_input("Enter")) =>
         tasks'[Len(tasks')].id =
             IF tasks = <<>> THEN 1 ELSE Max(Ids(tasks)) + 1]_vars

(***************************************************************************)
(* Properties of the cache and the view over the whole run.                *)
(***************************************************************************)
\* C27: once a fetch has put a list in the cache, no step of the running
\* program removes or replaces the entry; a later switch to the Issue tab
\* fetches nothing (whatever the remote would answer, the process goes on)
\* and shows that list, and the issue list of the program stays that list.
C27_CacheEntryStays ==
    /\ [](pc \in {"run", "exited"} =>
             \A e \in cache : e[1] = "issues" => issues = e[2])
    /\ [][(pc = "run" /\ ~NoEntry(cache) /\ pc' # "panic") =>
             cache' = cache]_vars
    /\ [][(Viewing /\ ~NoEntry(cache) /\ view.tab = "Task"
             /\ (handle_input("]") \/ handle_input("["))) =>
             /\ pc' = "run"
             /\ view' = IssuesView("View")
             /\ issues' = issues]_vars

\* back on the Task tab with the fetched list still in the cache
C27_Witness ==
    /\ pc = "run"
    /\ view = TaskView("View")
    /\ tab_index = 0
    /\ issues = <<2, 1>>
    /\ cache = {<<"issues", <<2, 1>>>>}

TabOf(v) == IF v.tab = "Task" THEN 0 ELSE 1

\* C28: the view is a Task view exactly when tab_index is 0 and an Issue
\* view exactly when it is 1; an Issue view is always Issue/Viewing, so text
\* entry (and with it Esc's jump to Task/Viewing) happens on the Task tab
\* only.
C28_ViewMatchesTab ==
    /\ view.tab \in {"Task", "Issues"}
    /\ view.action \in {"View", "Add", "Update"}
    /\ tab_index = TabOf(view)
    /\ view.tab = "Issues" => view.action = "View"
    /\ view.action # "View" => (view.tab = "Task" /\ tab_index = 0)

\* Issue/Viewing on tab 1
C28_Witness ==
    /\ pc = "run"
    /\ view = IssuesView("View")
    /\ tab_index = 1
    /\ selected = Some(0)
====
